---------------------------- MODULE Spec2Model ----------------------------
(***************************************************************************)
(* Model of the DaboTV ad filter: the SmartAdDetector classifier with its  *)
(* (url, duration) cache (src/lib/smartAdDetector.ts), the composite       *)
(* isAdSegment / AdFilter verdict and the M3U8 playlist rewriter           *)
(* (src/lib/adFilter.ts), with the default configuration of adConfig.      *)
(*                                                                         *)
(* Representation.                                                         *)
(*  - A JavaScript string is a TLA+ string; includes, startsWith, trim,    *)
(*    toLowerCase, split and join are computed character by character.     *)
(*    A CJK character of the source is written as one bracketed token,     *)
(*    e.g. "<guang><gao>", so that substring tests agree with the source.  *)
(*  - A JavaScript number that stands for a duration is an integer count   *)
(*    of millionths of a second (8 s is 8000000).  NaN is the value NaN.   *)
(*  - A confidence is an integer count of hundredths (0.4 is 40).          *)
(*  - An optional value (duration?, title?, index?, source?) is a tuple:   *)
(*    <<>> when undefined and <<v>> when present.                          *)
(***************************************************************************)
EXTENDS Integers, Sequences, FiniteSets, TLC

MICRO == 1000000

Sec(n) == n * MICRO

None == << >>

Some(v) == << v >>

IsSome(o) == o # << >>

Val(o) == o[1]

NaN == -1

(***************************************************************************)
(* String primitives of the JavaScript runtime.                            *)
(***************************************************************************)
Uppers == "ABCDEFGHIJKLMNOPQRSTUVWXYZ"

Lowers == "abcdefghijklmnopqrstuvwxyz"

Digits == "0123456789"

CharAt(s, i) == SubSeq(s, i, i)

IndexIn(alphabet, c) ==
  IF \E i \in 1..Len(alphabet) : CharAt(alphabet, i) = c
    THEN CHOOSE i \in 1..Len(alphabet) : CharAt(alphabet, i) = c
    ELSE 0

LowerChar(c) ==
  LET i == IndexIn(Uppers, c) IN IF i = 0 THEN c ELSE CharAt(Lowers, i)

\* s.toLowerCase().includes(k): the characters of s are lowered one by one
lowerIncludes(s, k) ==
  \E i \in 0..(Len(s) - Len(k)) :
     \A j \in 1..Len(k) : LowerChar(CharAt(s, i + j)) = CharAt(k, j)

\* s.toLowerCase().includes(k.toLowerCase())
lowerIncludesLower(s, k) ==
  \E i \in 0..(Len(s) - Len(k)) :
     \A j \in 1..Len(k) : LowerChar(CharAt(s, i + j)) = LowerChar(CharAt(k, j))

startsWith(s, p) == Len(s) >= Len(p) /\ SubSeq(s, 1, Len(p)) = p

IsSpace(c) == c \in {" ", "\t", "\r", "\n"}

RECURSIVE trimStart(_)
trimStart(s) ==
  IF Len(s) > 0 /\ IsSpace(CharAt(s, 1))
    THEN trimStart(SubSeq(s, 2, Len(s)))
    ELSE s

RECURSIVE trimEnd(_)
trimEnd(s) ==
  IF Len(s) > 0 /\ IsSpace(CharAt(s, Len(s)))
    THEN trimEnd(SubSeq(s, 1, Len(s) - 1))
    ELSE s

trim(s) == trimEnd(trimStart(s))

\* String.prototype.split('\n'): the pieces between the separators; the
\* empty string splits into one empty piece.
RECURSIVE split(_)
split(s) ==
  IF \E i \in 1..Len(s) : CharAt(s, i) = "\n"
    THEN LET i == CHOOSE j \in 1..Len(s) :
                    /\ CharAt(s, j) = "\n"
                    /\ \A k \in 1..(j - 1) : CharAt(s, k) # "\n"
         IN  << SubSeq(s, 1, i - 1) >> \o split(SubSeq(s, i + 1, Len(s)))
    ELSE << s >>

\* Array.prototype.join('\n'): the empty array joins to the empty string.
RECURSIVE join(_)
join(ls) ==
  IF Len(ls) = 0 THEN ""
  ELSE IF Len(ls) = 1 THEN ls[1]
  ELSE ls[1] \o "\n" \o join(Tail(ls))

\* Array.prototype.some / filter(...).length over a list of keywords.
SomeKw(kws, P(_)) == \E i \in 1..Len(kws) : P(kws[i])

CountKw(kws, P(_)) == Cardinality({i \in 1..Len(kws) : P(kws[i])})

Max(a, b) == IF a >= b THEN a ELSE b

Min(a, b) == IF a <= b THEN a ELSE b

(***************************************************************************)
(* Number -> string, as in the template literal `${url}_${duration}`.      *)
(***************************************************************************)
RECURSIVE NatToString(_)
NatToString(n) ==
  IF n < 10 THEN CharAt(Digits, n + 1)
  ELSE NatToString(n \div 10) \o CharAt(Digits, (n % 10) + 1)

\* the fraction digits of f millionths, written on w places, trailing
\* zeros dropped
RECURSIVE FracToString(_, _)
FracToString(f, w) ==
  IF f = 0 THEN ""
  ELSE LET unit == 10 ^ (w - 1)
       IN  CharAt(Digits, (f \div unit) + 1) \o FracToString(f % unit, w - 1)

NumberToString(o) ==
  IF ~IsSome(o) THEN "undefined"
  ELSE IF Val(o) = NaN THEN "NaN"
  ELSE LET n == Val(o)
       IN  IF n % MICRO = 0 THEN NatToString(n \div MICRO)
           ELSE NatToString(n \div MICRO) \o "." \o FracToString(n % MICRO, 6)

\* JavaScript truthiness of an optional number / string
TruthyNum(o) == IsSome(o) /\ Val(o) # 0 /\ Val(o) # NaN

TruthyStr(o) == IsSome(o) /\ Val(o) # ""

\* object spread { ...a, ...b }: the fields of b override those of a
Spread(a, b) ==
  [k \in (DOMAIN a) \cup (DOMAIN b) |-> IF k \in DOMAIN b THEN b[k] ELSE a[k]]

(***************************************************************************)
(* The inputs of the model.                                                *)
(***************************************************************************)
Urls ==
  { "https://example.com/video/episode_001.ts",
    "https://example.com/video/ad_segment_001.ts",
    "https://cdn.example.com/PreRoll/clip.ts",
    "https://example.com/video/Prelude_01.ts" }

\* no duration, and one of each bucket of interest: very short, the two ends
\* and the middle of the short bucket, normal content
Durations ==
  { None, Some(Sec(2)), Some(Sec(4)), Some(Sec(8)), Some(Sec(10)), Some(Sec(1800)) }

TitleTexts == { "Episode 1", "<guang><gao><shi><jian>" }

Titles == { None } \cup { Some(t) : t \in TitleTexts }

Indexes == { None, Some(0) }

\* the lines playlists are made of: tags, duration declarations (an ad
\* duration of every table, an ad duration of the ffzy and common tables
\* only, a content duration, a declaration without digits, a declaration
\* without a value), segment urls (plain, indented, with an ad keyword) and
\* the empty line
LineTexts ==
  { "#EXTM3U", "#EXT-X-DISCONTINUITY",
    "#EXTINF:5.640000,", "#EXTINF:15.0,", "#EXTINF:8.000000,", "#EXTINF:.",
    "#EXTINF:,",
    "segment01.ts", "  segment02.ts", "https://ads.example.com/seg.ts", "" }

\* no source, two sources with a table of ad durations, a source without
Sources == { None, Some("ruyi"), Some("ffzy"), Some("other") }

(***************************************************************************)
(* SmartAdDetector (src/lib/smartAdDetector.ts).                           *)
(* A DetectionResult is a record isAd, confidence, reason and, when the    *)
(* source sets it, adType.                                                 *)
(***************************************************************************)
analyzeByDurationWide(duration) ==
  IF duration >= Sec(1) /\ duration <= Sec(3) THEN
    [isAd |-> FALSE, confidence |-> 10, reason |-> "very short", adType |-> "short"]
  ELSE IF duration >= Sec(4) /\ duration <= Sec(10) THEN
    [isAd |-> TRUE, confidence |-> 40, reason |-> "short", adType |-> "short"]
  ELSE IF duration >= Sec(11) /\ duration <= Sec(30) THEN
    [isAd |-> TRUE, confidence |-> 60, reason |-> "medium", adType |-> "mid-roll"]
  ELSE IF duration >= Sec(31) THEN
    [isAd |-> TRUE, confidence |-> 40, reason |-> "longer", adType |-> "mid-roll"]
  ELSE
    [isAd |-> FALSE, confidence |-> 20, reason |-> "ambiguous duration"]

analyzeByDurationShortNotAd(duration) ==
  IF duration >= Sec(1) /\ duration <= Sec(10) THEN
    [isAd |-> FALSE, confidence |-> 40, reason |-> "short", adType |-> "short"]
  ELSE IF duration >= Sec(11) /\ duration <= Sec(30) THEN
    [isAd |-> TRUE, confidence |-> 60, reason |-> "medium", adType |-> "mid-roll"]
  ELSE IF duration >= Sec(31) /\ duration <= Sec(60) THEN
    [isAd |-> TRUE, confidence |-> 40, reason |-> "longer", adType |-> "mid-roll"]
  ELSE IF duration > Sec(60) THEN
    [isAd |-> FALSE, confidence |-> 95, reason |-> "normal content"]
  ELSE
    [isAd |-> FALSE, confidence |-> 20, reason |-> "ambiguous duration"]

analyzeByDuration(duration) ==
  IF duration >= Sec(1) /\ duration <= Sec(3) THEN
    [isAd |-> FALSE, confidence |-> 10, reason |-> "very short", adType |-> "short"]
  ELSE IF duration >= Sec(4) /\ duration <= Sec(10) THEN
    [isAd |-> TRUE, confidence |-> 40, reason |-> "short", adType |-> "short"]
  ELSE IF duration >= Sec(11) /\ duration <= Sec(30) THEN
    [isAd |-> TRUE, confidence |-> 60, reason |-> "medium", adType |-> "mid-roll"]
  ELSE IF duration >= Sec(31) /\ duration <= Sec(60) THEN
    [isAd |-> TRUE, confidence |-> 40, reason |-> "longer", adType |-> "mid-roll"]
  ELSE IF duration > Sec(60) THEN
    [isAd |-> FALSE, confidence |-> 95, reason |-> "normal content"]
  ELSE
    [isAd |-> FALSE, confidence |-> 20, reason |-> "ambiguous duration"]

urlHighConfidenceAdKeywords ==
  << "adserver", "adservice", "doubleclick", "googlesyndication", "admanager",
     "vast", "vpaid", "preroll", "postroll", "midroll", "commercials", "adtag" >>

urlMediumConfidenceAdKeywords ==
  << "ad", "ads", "advertisement", "promo", "promotion", "sponsor", "sponsored",
     "brand_ad" >>

\* the regular expressions of analyzeByUrl, all with the i flag; each is a
\* literal text except /\/ads?\//, which is the two literals /ad/ and /ads/
adPatterns ==
  << {"/ad/", "/ads/"}, {"/commercial/"}, {"/promo/"}, {"/sponsor/"}, {"_ad_"},
     {"-ad-"}, {".ad."}, {"ad_slot"}, {"ad_unit"} >>

analyzeByUrl(url) ==
  LET Has(keyword) == lowerIncludes(url, keyword)
      high == SomeKw(urlHighConfidenceAdKeywords, Has)
      foundCount == CountKw(urlMediumConfidenceAdKeywords, Has)
      medium == ~high /\ foundCount > 0
      \* confidence and isAd after the two keyword loops
      kwConfidence == IF high THEN Max(10, 90)
                      ELSE IF medium THEN Min(60, 30 + foundCount * 10)
                      ELSE 10
      kwIsAd == high \/ medium
      \* RegExp.test with flag i on the original url
      pattern == \E i \in 1..Len(adPatterns) :
                    \E lit \in adPatterns[i] : lowerIncludes(url, lit)
  IN  [isAd |-> kwIsAd \/ pattern,
       confidence |-> IF pattern THEN Max(kwConfidence, 75) ELSE kwConfidence,
       reason |-> IF pattern THEN "url pattern"
                  ELSE IF high THEN "url high keyword"
                  ELSE IF medium THEN "url medium keyword"
                  ELSE "url clean",
       adType |-> "unknown"]

titleHighConfidenceAdKeywords ==
  << "<guang><gao>", "<tui><guang>", "<zan><zhu>", "<shang><ye><guang><gao>",
     "<xuan><chuan><pian>", "ad", "commercial", "sponsored",
     "<guang><gao><shi><jian>" >>

titleMediumConfidenceAdKeywords ==
  << "<yu><gao>", "<cha><bo>", "<tan><chuang>", "<heng><fu>", "<fu><dong>",
     "<qian><ru>", "promo", "trailer", "preview", "<pin><pai><he><zuo>" >>

analyzeByTitle(title) ==
  LET Has(keyword) == lowerIncludes(title, keyword)
      high == SomeKw(titleHighConfidenceAdKeywords, Has)
      foundCount == CountKw(titleMediumConfidenceAdKeywords, Has)
      medium == ~high /\ foundCount > 0
  IN  [isAd |-> high \/ medium,
       confidence |-> IF high THEN Max(10, 85)
                      ELSE IF medium THEN Min(65, 35 + foundCount * 10)
                      ELSE 10,
       reason |-> IF high THEN "title high keyword"
                  ELSE IF medium THEN "title medium keyword"
                  ELSE "title clean",
       adType |-> "unknown"]

\* the two text analyses, tabulated over the urls and titles of the model
analyzeByUrlMemo == [u \in Urls |-> analyzeByUrl(u)]

analyzeByTitleMemo == [t \in TitleTexts |-> analyzeByTitle(t)]

\* analyzeBySequence with a high confidence for a leading short fragment
analyzeBySequenceConfident(index, duration) ==
  IF index < 2 /\ duration <= Sec(8) THEN
    [isAd |-> FALSE, confidence |-> 80, reason |-> "leading short", adType |-> "short"]
  ELSE IF duration <= Sec(12) THEN
    [isAd |-> FALSE, confidence |-> 10, reason |-> "short in sequence", adType |-> "unknown"]
  ELSE
    [isAd |-> FALSE, confidence |-> 10, reason |-> "no sequence pattern"]

analyzeBySequence(index, duration) ==
  IF index < 2 /\ duration <= Sec(8) THEN
    [isAd |-> FALSE, confidence |-> 20, reason |-> "leading short", adType |-> "short"]
  ELSE IF duration <= Sec(12) THEN
    [isAd |-> FALSE, confidence |-> 10, reason |-> "short in sequence", adType |-> "unknown"]
  ELSE
    [isAd |-> FALSE, confidence |-> 10, reason |-> "no sequence pattern"]

cacheKey(url, duration) == url \o "_" \o NumberToString(duration)

\* a merge step that adds the confidences instead of taking their maximum
MergeAdding(result, analysis) ==
  LET r == [result EXCEPT !.confidence = result.confidence + analysis.confidence]
  IN  IF analysis.isAd THEN Spread(analysis, r) ELSE r

\* one merge step of detectAd: result.confidence = Math.max(...), then
\* result = { ...analysis, ...result } when the analysis says ad
Merge(result, analysis) ==
  LET r == [result EXCEPT !.confidence = Max(result.confidence, analysis.confidence)]
  IN  IF analysis.isAd THEN Spread(analysis, r) ELSE r

EmptyHistory == [k \in {} |-> FALSE]

MapSet(h, key, v) ==
  [k \in (DOMAIN h) \cup {key} |-> IF k = key THEN v ELSE h[k]]

\* result.confidence = Math.max(...); if (analysis.isAd) result = {...}
\* for an analysis that runs only under a condition (lines 66-72, 75-81)
MergeWhen(cond, result, analysis) ==
  IF cond THEN Merge(result, analysis) ELSE result

\* detectAd on a cache miss with a duration: steps 2 to 5 (lines 56-81)
analyze(fragment) ==
  MergeWhen(IsSome(fragment.index),
            MergeWhen(TruthyStr(fragment.title),
                      Merge(analyzeByDuration(Val(fragment.duration)),
                            analyzeByUrlMemo[fragment.url]),
                      analyzeByTitleMemo[Val(fragment.title)]),
            analyzeBySequence(Val(fragment.index), Val(fragment.duration)))

\* the analyses a miss with a duration evaluates
analysesRun(fragment) ==
  {"duration", "url"}
    \cup (IF TruthyStr(fragment.title) THEN {"title"} ELSE {})
    \cup (IF IsSome(fragment.index) THEN {"sequence"} ELSE {})

\* step 6 without the write to the cache
cacheResultNotStored(result, key, fragment, adHistory) ==
  [result |-> result, adHistory |-> adHistory, ran |-> analysesRun(fragment)]

\* step 6 (lines 83-86): store result.isAd under the key, return result
cacheResult(result, key, fragment, adHistory) ==
  [result |-> result,
   adHistory |-> MapSet(adHistory, key, result.isAd),
   ran |-> analysesRun(fragment)]

\* detectAd answering a missing duration from the url analysis
detectAdKeyedUrlWithoutDuration(key, fragment, adHistory) ==
  IF key \in DOMAIN adHistory THEN
    [result |-> [isAd |-> adHistory[key], confidence |-> 90,
                 reason |-> "cache hit", adType |-> "unknown"],
     adHistory |-> adHistory, ran |-> {}]
  ELSE IF ~TruthyNum(fragment.duration) THEN
    [result |-> analyzeByUrlMemo[fragment.url], adHistory |-> adHistory, ran |-> {"url"}]
  ELSE [result |-> analyze(fragment),
        adHistory |-> MapSet(adHistory, key, analyze(fragment).isAd),
        ran |-> analysesRun(fragment)]

\* detectAd without the cache lookup of lines 36-45
detectAdKeyedNoLookup(key, fragment, adHistory) ==
  IF ~TruthyNum(fragment.duration) THEN
    [result |-> [isAd |-> FALSE, confidence |-> 10, reason |-> "no duration"],
     adHistory |-> adHistory, ran |-> {}]
  ELSE cacheResult(analyze(fragment), key, fragment, adHistory)

\* detectAd(fragment) for the cache key of the fragment, on the cache
\* adHistory: the DetectionResult, the cache after the call and the set of
\* analyses the call evaluated
detectAdKeyed(key, fragment, adHistory) ==
  IF key \in DOMAIN adHistory THEN
    [result |-> [isAd |-> adHistory[key], confidence |-> 90,
                 reason |-> "cache hit", adType |-> "unknown"],
     adHistory |-> adHistory, ran |-> {}]
  ELSE IF ~TruthyNum(fragment.duration) THEN
    [result |-> [isAd |-> FALSE, confidence |-> 10, reason |-> "no duration"],
     adHistory |-> adHistory, ran |-> {}]
  ELSE cacheResult(analyze(fragment), key, fragment, adHistory)

detectAd(fragment, adHistory) ==
  detectAdKeyed(cacheKey(fragment.url, fragment.duration), fragment, adHistory)

\* a clearCache that leaves the entries in place
clearCacheKeepingEntries(adHistory) == adHistory

\* this.adHistory.clear() (contentPatternCache is never read or written
\* elsewhere)
clearCache(adHistory) == EmptyHistory

getStats(adHistory) ==
  [cacheSize |-> Cardinality(DOMAIN adHistory),
   totalDetections |-> Cardinality(DOMAIN adHistory),
   adDetections |-> Cardinality({k \in DOMAIN adHistory : adHistory[k]})]

(***************************************************************************)
(* Configuration (adConfig, src/unnamed/part_000 lines 214-329).           *)
(***************************************************************************)
DEFAULT_AD_CONFIG ==
  [enabled |-> TRUE,
   strictMode |-> FALSE,
   customPatterns |->
     << [name |-> "Pre-roll Ads", enabled |-> TRUE,
         urlPatterns |-> << "pre-roll", "preroll", "intro-ad", "opening-ad", "prelude" >>,
         titlePatterns |-> << "<guang><gao>", "<yu><gao>", "<tui><guang>", "<zan><zhu>",
                              "<xuan><chuan><pian>" >>,
         durationRange |-> Some([min |-> Sec(5), max |-> Sec(120)]),
         priority |-> 10, matchType |-> "contains"],
        [name |-> "Mid-roll Ads", enabled |-> TRUE,
         urlPatterns |-> << "mid-roll", "midroll", "break", "intermission" >>,
         titlePatterns |-> << "<cha><bo>", "<zhong><duan>", "<xiu><xi>", "<zan><ting>" >>,
         durationRange |-> Some([min |-> Sec(3), max |-> Sec(30)]),
         priority |-> 8, matchType |-> "contains"],
        [name |-> "Sponsor Content", enabled |-> TRUE,
         urlPatterns |-> << "sponsor", "sponsored", "promotion", "promo" >>,
         titlePatterns |-> << "<zan><zhu>", "<tui><guang>", "<he><zuo>", "<pin><pai>" >>,
         durationRange |-> Some([min |-> Sec(3), max |-> Sec(60)]),
         priority |-> 7, matchType |-> "contains"],
        [name |-> "Generic Ads", enabled |-> TRUE,
         urlPatterns |-> << "adserver", "adservice", "doubleclick", "googlesyndication",
                            "admanager", "vast", "vpaid" >>,
         titlePatterns |-> << "<guang><gao>", "<ying><xiao>", "<shang><ye>", "<tui><guang>" >>,
         durationRange |-> Some([min |-> Sec(5), max |-> Sec(300)]),
         priority |-> 5, matchType |-> "contains"] >>,
   skipPreRoll |-> TRUE, skipMidRoll |-> TRUE, skipPostRoll |-> TRUE,
   maxAdDuration |-> 300, minContentDuration |-> 60]

\* rules a user can add with addCustomPattern: one with url patterns only,
\* one with title patterns only, one with a duration range only, and the
\* url rule switched off
RuleUrlOnly ==
  [name |-> "Episodes", enabled |-> TRUE,
   urlPatterns |-> << "episode" >>, titlePatterns |-> << >>,
   durationRange |-> None, priority |-> 1, matchType |-> "contains"]

RuleTitleOnly ==
  [name |-> "Ad titles", enabled |-> TRUE,
   urlPatterns |-> << >>, titlePatterns |-> << "<guang><gao>" >>,
   durationRange |-> None, priority |-> 1, matchType |-> "contains"]

RuleDurationOnly ==
  [name |-> "Short clips", enabled |-> TRUE,
   urlPatterns |-> << >>, titlePatterns |-> << >>,
   durationRange |-> Some([min |-> Sec(3), max |-> Sec(9)]),
   priority |-> 1, matchType |-> "contains"]

RuleDisabled == [RuleUrlOnly EXCEPT !.enabled = FALSE]

RuleLists ==
  { << >>, DEFAULT_AD_CONFIG.customPatterns,
    << RuleUrlOnly >>, << RuleTitleOnly >>, << RuleDurationOnly >>,
    << RuleDisabled, RuleTitleOnly >> }

(***************************************************************************)
(* Composite ad filter (src/lib/adFilter.ts).                              *)
(***************************************************************************)
AD_PATTERNS ==
  << [urlKeywords |-> Some(<< "ad", "advertisement", "commercial", "promo", "sponsor" >>),
      durationRange |-> Some([min |-> Sec(5), max |-> Sec(60)]),
      titleKeywords |-> None],
     [urlKeywords |-> Some(<< "pre-roll", "preroll", "intro-ad", "opening-ad" >>),
      durationRange |-> Some([min |-> Sec(10), max |-> Sec(30)]),
      titleKeywords |-> None],
     [urlKeywords |-> None,
      durationRange |-> Some([min |-> Sec(5), max |-> Sec(120)]),
      titleKeywords |-> Some(<< "<guang><gao>", "<yu><gao>", "<tui><guang>", "<zan><zhu>" >>)] >>

adKeywords ==
  << "ad", "ads", "advertisement", "commercial", "promo", "promotion",
     "sponsor", "sponsored", "brand", "marketing", "advert" >>

midRollKeywords ==
  << "mid", "break", "intermission", "insert", "embed",
     "popup", "overlay", "banner", "floating" >>

\* adKeywords of isAdUrl (lines 588-593)
isAdUrlKeywords ==
  << "adserver", "adservice", "doubleclick", "googlesyndication",
     "admanager", "vast", "vpaid", "preroll", "postroll", "midroll",
     "commercials", "adtag", "ads.", "/ads/", "_ad_", "-ad-",
     "advertisement", "sponsor", "promo" >>

SeqRange(q) == { q[i] : i \in DOMAIN q }

\* the texts the model tests: urls, titles and playlist url lines on one
\* side, the keywords and patterns of the rule tables on the other
Haystacks == Urls \cup TitleTexts \cup { trim(l) : l \in LineTexts }

Needles ==
  UNION { UNION { SeqRange(rules[i].urlPatterns) \cup SeqRange(rules[i].titlePatterns) :
                    i \in DOMAIN rules } : rules \in RuleLists }
    \cup SeqRange(adKeywords) \cup SeqRange(midRollKeywords)
    \cup SeqRange(isAdUrlKeywords)
    \cup SeqRange(urlHighConfidenceAdKeywords) \cup SeqRange(urlMediumConfidenceAdKeywords)
    \cup UNION { (IF IsSome(AD_PATTERNS[i].urlKeywords)
                    THEN SeqRange(Val(AD_PATTERNS[i].urlKeywords)) ELSE {})
                 \cup (IF IsSome(AD_PATTERNS[i].titleKeywords)
                         THEN SeqRange(Val(AD_PATTERNS[i].titleKeywords)) ELSE {}) :
                 i \in 1..Len(AD_PATTERNS) }

\* keyword => haystack.toLowerCase().includes(keyword.toLowerCase()),
\* tabulated over the texts of the model so that it is evaluated once
IncludesMemo ==
  [h \in Haystacks |-> [k \in Needles |-> lowerIncludesLower(h, k)]]

IncludesCI(haystack, keyword) == IncludesMemo[haystack][keyword]

\* the body of the loop over adConfig.customPatterns (lines 69-92)
customPatternMatches(pattern, segmentUrl, duration, title) ==
  LET urlOk == Len(pattern.urlPatterns) > 0 =>
                 \E i \in 1..Len(pattern.urlPatterns) :
                    IncludesCI(segmentUrl, pattern.urlPatterns[i])
      titleOk == (Len(pattern.titlePatterns) > 0 /\ TruthyStr(title)) =>
                   \E i \in 1..Len(pattern.titlePatterns) :
                      IncludesCI(Val(title), pattern.titlePatterns[i])
      durationOk == (IsSome(pattern.durationRange) /\ TruthyNum(duration)) =>
                      ~(\/ Val(duration) < Val(pattern.durationRange).min
                        \/ Val(duration) > Val(pattern.durationRange).max)
  IN  urlOk /\ titleOk /\ durationOk

\* the callback of AD_PATTERNS.some (lines 139-163)
builtinPatternMatches(pattern, segmentUrl, duration, title) ==
  LET urlOk == IsSome(pattern.urlKeywords) =>
                 \E i \in 1..Len(Val(pattern.urlKeywords)) :
                    IncludesCI(segmentUrl, Val(pattern.urlKeywords)[i])
      durationOk == (IsSome(pattern.durationRange) /\ TruthyNum(duration)) =>
                      ~(\/ Val(duration) < Val(pattern.durationRange).min
                        \/ Val(duration) > Val(pattern.durationRange).max)
      titleOk == (IsSome(pattern.titleKeywords) /\ TruthyStr(title)) =>
                   \E i \in 1..Len(Val(pattern.titleKeywords)) :
                      IncludesCI(Val(title), Val(pattern.titleKeywords)[i])
  IN  urlOk /\ durationOk /\ titleOk

\* the short-segment heuristic of step 3 (lines 102-117)
shortAdHeuristic(segmentUrl, duration) ==
  /\ duration >= Sec(3) /\ duration <= Sec(25)
  /\ \E i \in 1..Len(adKeywords) : IncludesCI(segmentUrl, adKeywords[i])

\* the mid-roll heuristic of step 3 (lines 120-134)
midRollHeuristic(segmentUrl, duration) ==
  /\ duration >= Sec(15) /\ duration <= Sec(45)
  /\ \E i \in 1..Len(midRollKeywords) : IncludesCI(segmentUrl, midRollKeywords[i])

\* decide with the scan of the user's rules made in non-strict mode only
decideRulesWhenNotStrict(smartResult, segmentUrl, duration, title, adConfig) ==
  IF smartResult.confidence >= 70 THEN
    [isAd |-> smartResult.isAd, step |-> "smart"]
  ELSE IF /\ ~adConfig.strictMode
          /\ \E i \in 1..Len(adConfig.customPatterns) :
                /\ adConfig.customPatterns[i].enabled
                /\ customPatternMatches(adConfig.customPatterns[i],
                                        segmentUrl, duration, title) THEN
    [isAd |-> TRUE, step |-> "custom"]
  ELSE IF /\ ~adConfig.strictMode
          /\ TruthyNum(duration)
          /\ \/ shortAdHeuristic(segmentUrl, Val(duration))
             \/ midRollHeuristic(segmentUrl, Val(duration)) THEN
    [isAd |-> TRUE, step |-> "heuristic"]
  ELSE IF ~adConfig.strictMode THEN
    [isAd |-> \E i \in 1..Len(AD_PATTERNS) :
                 builtinPatternMatches(AD_PATTERNS[i], segmentUrl, duration, title),
     step |-> "builtin"]
  ELSE IF smartResult.confidence >= 40 /\ smartResult.isAd THEN
    [isAd |-> TRUE, step |-> "medium"]
  ELSE
    [isAd |-> FALSE, step |-> "none"]

\* isAdSegment after the classifier has answered smartResult (lines 59-172):
\* the verdict and the step that decided it
decide(smartResult, segmentUrl, duration, title, adConfig) ==
  IF smartResult.confidence >= 70 THEN
    [isAd |-> smartResult.isAd, step |-> "smart"]
  ELSE IF \E i \in 1..Len(adConfig.customPatterns) :
             /\ adConfig.customPatterns[i].enabled
             /\ customPatternMatches(adConfig.customPatterns[i],
                                     segmentUrl, duration, title) THEN
    [isAd |-> TRUE, step |-> "custom"]
  ELSE IF /\ ~adConfig.strictMode
          /\ TruthyNum(duration)
          /\ \/ shortAdHeuristic(segmentUrl, Val(duration))
             \/ midRollHeuristic(segmentUrl, Val(duration)) THEN
    [isAd |-> TRUE, step |-> "heuristic"]
  ELSE IF ~adConfig.strictMode THEN
    [isAd |-> \E i \in 1..Len(AD_PATTERNS) :
                 builtinPatternMatches(AD_PATTERNS[i], segmentUrl, duration, title),
     step |-> "builtin"]
  ELSE IF smartResult.confidence >= 40 /\ smartResult.isAd THEN
    [isAd |-> TRUE, step |-> "medium"]
  ELSE
    [isAd |-> FALSE, step |-> "none"]

\* what an isAdSegment call leaves: its verdict, the deciding step, the
\* classifier's answer d.result and the cache d.adHistory after the call
verdictOf(decision, d) ==
  [isAd |-> decision.isAd, step |-> decision.step,
   smart |-> d.result, adHistory |-> d.adHistory]

\* isAdSegment from the classifier call on (lines 51-173), d being the
\* outcome of smartAdDetector.detectAd on the fragment
classify(d, segmentUrl, duration, title, adConfig) ==
  verdictOf(decide(d.result, segmentUrl, duration, title, adConfig), d)

\* isAdSegment without the test of adConfig.enabled of lines 47-49
isAdSegmentIgnoringEnabled(segmentUrl, duration, title, adConfig, index, adHistory) ==
  classify(detectAd([url |-> segmentUrl, duration |-> duration,
                     title |-> title, index |-> index], adHistory),
           segmentUrl, duration, title, adConfig)

isAdSegment(segmentUrl, duration, title, adConfig, index, adHistory) ==
  IF ~adConfig.enabled
    THEN [isAd |-> FALSE, step |-> "disabled", smart |-> None, adHistory |-> adHistory]
    ELSE classify(detectAd([url |-> segmentUrl, duration |-> duration,
                            title |-> title, index |-> index], adHistory),
                  segmentUrl, duration, title, adConfig)

\* segments.filter(segment => !isAdSegment(segment.url, segment.duration,
\* segment.title, config)): the calls are made in list order on the shared
\* cache; v is the outcome of the call for the head s of the list
RECURSIVE filterAdSegments(_, _, _)
filterRest(s, v, rest) ==
  [out |-> (IF v.isAd THEN << >> ELSE << s >>) \o rest.out,
   adHistory |-> rest.adHistory]

filterFrom(s, v, tail, adConfig) ==
  filterRest(s, v, filterAdSegments(tail, adConfig, v.adHistory))

filterAdSegments(segments, adConfig, adHistory) ==
  IF Len(segments) = 0 THEN [out |-> << >>, adHistory |-> adHistory]
  ELSE filterFrom(Head(segments),
                  isAdSegment(Head(segments).url, Head(segments).duration,
                              Head(segments).title, adConfig, None, adHistory),
                  Tail(segments), adConfig)

(***************************************************************************)
(* M3U8 playlist rewriter (src/lib/adFilter.ts, lines 426-622).            *)
(***************************************************************************)
IsDigit(c) == \E i \in 1..Len(Digits) : CharAt(Digits, i) = c

\* the character class [\d.]
IsNumChar(c) == IsDigit(c) \/ c = "."

\* the number of leading decimal digits of s
leadingDigits(s) ==
  CHOOSE n \in 0..Len(s) :
    /\ \A k \in 1..n : IsDigit(CharAt(s, k))
    /\ n = Len(s) \/ ~IsDigit(CharAt(s, n + 1))

RECURSIVE digitsValue(_)
digitsValue(s) ==
  IF Len(s) = 0 THEN 0
  ELSE digitsValue(SubSeq(s, 1, Len(s) - 1)) * 10 + (IndexIn(Digits, CharAt(s, Len(s))) - 1)

\* the value in millionths of the fraction digits s (the declarations of
\* the model carry at most six)
fractionValue(s) ==
  digitsValue(SubSeq(s, 1, Min(Len(s), 6))) * (10 ^ (6 - Min(Len(s), 6)))

\* parseFloat(s) once the integer digits s[1..n] are known: the longest
\* prefix digits [. digits]; NaN when that prefix holds no digit
parseFloatFrom(s, n) ==
  IF n < Len(s) /\ CharAt(s, n + 1) = "." THEN
    IF n = 0 /\ leadingDigits(SubSeq(s, 2, Len(s))) = 0 THEN NaN
    ELSE digitsValue(SubSeq(s, 1, n)) * MICRO
         + fractionValue(SubSeq(s, n + 2, n + 1 + leadingDigits(SubSeq(s, n + 2, Len(s)))))
  ELSE IF n = 0 THEN NaN
  ELSE digitsValue(SubSeq(s, 1, n)) * MICRO

parseFloat(s) == parseFloatFrom(s, leadingDigits(s))

\* /#EXTINF:([\d.]+)/ matches at position i of s
extinfMatchAt(s, i) ==
  /\ i + 8 <= Len(s)
  /\ SubSeq(s, i, i + 7) = "#EXTINF:"
  /\ IsNumChar(CharAt(s, i + 8))

\* the group ([\d.]+) of the match at position i: the longest run
extinfGroup(s, i) ==
  SubSeq(s, i + 8,
         CHOOSE j \in (i + 8)..Len(s) :
           /\ \A k \in (i + 8)..j : IsNumChar(CharAt(s, k))
           /\ j = Len(s) \/ ~IsNumChar(CharAt(s, j + 1)))

\* parseExtinfDuration: number | null, the match being the leftmost one
parseExtinfDuration(extinfLine) ==
  IF \E i \in 1..Len(extinfLine) : extinfMatchAt(extinfLine, i)
    THEN Some(parseFloat(extinfGroup(extinfLine,
                 CHOOSE i \in 1..Len(extinfLine) :
                   /\ extinfMatchAt(extinfLine, i)
                   /\ \A k \in 1..(i - 1) : ~extinfMatchAt(extinfLine, k))))
    ELSE None

sourceAdDurations ==
  [ruyi |-> << 5640000, 2960000, 3480000, 4000000, 960000, 10000000, 1266667 >>,
   ffzy |-> << 5000000, 10000000, 15000000 >>,
   bfzy |-> << 5000000, 10000000, 15000000 >>]

commonAdDurations ==
  << 5000000, 5640000, 10000000, 15000000, 20000000, 30000000,
     2960000, 3480000, 4000000, 960000, 1266667 >>

\* the literal 0.01, in millionths
TOLERANCE == 10000

\* binary64: the error x - n/10^6 of the double x nearest to n millionths,
\* in units of 2^-59 / 5^6, for the table entries and their neighbours at
\* one hundredth
RoundingError ==
  [n \in { 950000, 960000, 970000, 1256667, 1266667, 1276667, 2950000,
           2960000, 2970000, 3470000, 3480000, 3490000, 3990000, 4000000,
           4010000, 4990000, 5000000, 5010000, 5630000, 5640000, 5650000,
           9990000, 10000000, 10010000, 14990000, 15000000, 15010000,
           19990000, 20000000, 20010000, 29990000, 30000000, 30010000 } |->
     CASE n = 950000 -> -400000    [] n = 960000 -> -320000
       [] n = 970000 -> -240000    [] n = 1256667 -> -193664
       [] n = 1266667 -> -113664   [] n = 1276667 -> -33664
       [] n = 2950000 -> 1600000   [] n = 2960000 -> -320000
       [] n = 2970000 -> 1760000   [] n = 3470000 -> 1760000
       [] n = 3480000 -> -160000   [] n = 3490000 -> 1920000
       [] n = 3990000 -> 1920000   [] n = 4000000 -> 0
       [] n = 4010000 -> -1920000  [] n = 4990000 -> 1920000
       [] n = 5000000 -> 0         [] n = 5010000 -> -1920000
       [] n = 5630000 -> -960000   [] n = 5640000 -> -2880000
       [] n = 5650000 -> 3200000   [] n = 9990000 -> 1920000
       [] n = 10000000 -> 0        [] n = 10010000 -> -1920000
       [] n = 14990000 -> 1920000  [] n = 15000000 -> 0
       [] n = 15010000 -> -1920000 [] n = 19990000 -> -14080000
       [] n = 20000000 -> 0        [] n = 20010000 -> 14080000
       [] n = 29990000 -> -14080000 [] n = 30000000 -> 0
       [] n = 30010000 -> 14080000]

\* the error of the double 0.01, in the same units
ToleranceError == 1875

\* Math.abs(duration - adDuration) <= 0.01
withinOrAt(duration, adDuration) ==
  /\ duration # NaN
  /\ (IF duration >= adDuration THEN duration - adDuration
                                ELSE adDuration - duration) <= TOLERANCE

\* Math.abs(duration - adDuration) < 0.01 on doubles.  Away from one
\* hundredth the decimal difference decides; at exactly one hundredth the
\* subtraction is exact and the rounding errors of the three doubles decide.
within(duration, adDuration) ==
  IF duration = NaN THEN FALSE
  ELSE IF duration - adDuration = TOLERANCE THEN
    RoundingError[duration] - RoundingError[adDuration] < ToleranceError
  ELSE IF adDuration - duration = TOLERANCE THEN
    RoundingError[adDuration] - RoundingError[duration] < ToleranceError
  ELSE duration - adDuration < TOLERANCE /\ adDuration - duration < TOLERANCE

\* the loop of lines 557-561 and of lines 572-576
someWithin(duration, adDurations) ==
  \E i \in 1..Len(adDurations) : within(duration, adDurations[i])

\* source && sourceAdDurations[source]
hasSourceRule(source) ==
  TruthyStr(source) /\ Val(source) \in DOMAIN sourceAdDurations

\* isAdDuration with the common table consulted in strict mode too
isAdDurationAnyMode(duration, source, config) ==
  IF hasSourceRule(source) /\ someWithin(duration, sourceAdDurations[Val(source)])
    THEN TRUE
  ELSE someWithin(duration, commonAdDurations)

isAdDuration(duration, source, config) ==
  IF hasSourceRule(source) /\ someWithin(duration, sourceAdDurations[Val(source)])
    THEN TRUE
  ELSE IF config.strictMode THEN FALSE
  ELSE someWithin(duration, commonAdDurations)

\* the test of one url pattern of a custom rule (lines 604-613); the
\* patterns of the model are literal texts, on which a RegExp with the
\* flag i is a search that ignores case
urlPatternMatches(pattern, urlPattern, url) ==
  IF pattern.matchType = "regex" THEN IncludesCI(url, urlPattern)
  ELSE IncludesCI(url, urlPattern)

isAdUrl(url, config) ==
  \/ \E i \in 1..Len(isAdUrlKeywords) : IncludesCI(url, isAdUrlKeywords[i])
  \/ \E i \in 1..Len(config.customPatterns) :
       /\ config.customPatterns[i].enabled
       /\ \E j \in 1..Len(config.customPatterns[i].urlPatterns) :
            urlPatternMatches(config.customPatterns[i],
                              config.customPatterns[i].urlPatterns[j], url)

\* The state of the loop of filterAdsFromM3U8: filteredLines,
\* removedSegments, originalSegments, skipNextLine, and keptAt, the
\* positions in lines of the entries of filteredLines.
LoopStart ==
  [filteredLines |-> << >>, keptAt |-> << >>, removedSegments |-> 0,
   originalSegments |-> 0, skipNextLine |-> FALSE]

\* filteredLines.push(trimmedLine), the line without its outer whitespace
pushTrimmed(st, i, line) ==
  [st EXCEPT !.filteredLines = Append(@, trim(line)), !.keptAt = Append(@, i)]

\* filteredLines.push(line)
push(st, i, line) ==
  [st EXCEPT !.filteredLines = Append(@, line), !.keptAt = Append(@, i)]

\* filteredLines.pop(); originalSegments-- (lines 505-506)
pop(st) ==
  [st EXCEPT !.filteredLines = SubSeq(@, 1, Len(@) - 1),
             !.keptAt = SubSeq(@, 1, Len(@) - 1),
             !.originalSegments = @ - 1]

\* an #EXTINF line with an ad duration kept, only the line after it skipped
extinfLineKeepingLine(st, i, line, duration, source, adConfig) ==
  IF IsSome(duration) /\ isAdDuration(Val(duration), source, adConfig)
    THEN [push(st, i, line) EXCEPT !.skipNextLine = TRUE]
    ELSE [push(st, i, line) EXCEPT !.originalSegments = @ + 1]

\* an #EXTINF line (lines 486-499), its duration parsed
extinfLine(st, i, line, duration, source, adConfig) ==
  IF IsSome(duration) /\ isAdDuration(Val(duration), source, adConfig)
    THEN [st EXCEPT !.skipNextLine = TRUE]
    ELSE [push(st, i, line) EXCEPT !.originalSegments = @ + 1]

\* a url line that isAdUrl accepts (lines 503-510)
adUrlLine(st) ==
  IF /\ Len(st.filteredLines) > 0
     /\ startsWith(trim(st.filteredLines[Len(st.filteredLines)]), "#EXTINF:")
    THEN [pop(st) EXCEPT !.removedSegments = @ + 1]
    ELSE [st EXCEPT !.removedSegments = @ + 1]

\* one iteration of the loop (lines 471-515) on lines[i]
loopBody(st, i, line, trimmedLine, source, adConfig) ==
  IF st.skipNextLine THEN
    [st EXCEPT !.skipNextLine = FALSE, !.removedSegments = @ + 1]
  ELSE IF trimmedLine = "#EXT-X-DISCONTINUITY" THEN st
  ELSE IF startsWith(trimmedLine, "#EXTINF:") THEN
    extinfLine(st, i, line, parseExtinfDuration(trimmedLine), source, adConfig)
  ELSE IF /\ ~startsWith(trimmedLine, "#")
          /\ Len(trimmedLine) > 0
          /\ isAdUrl(trimmedLine, adConfig) THEN
    adUrlLine(st)
  ELSE push(st, i, line)

RECURSIVE loop(_, _, _, _, _)
loop(st, lines, i, source, adConfig) ==
  IF i > Len(lines) THEN st
  ELSE loop(loopBody(st, i, lines[i], trim(lines[i]), source, adConfig),
            lines, i + 1, source, adConfig)

\* the M3U8FilterResult of a finished loop (lines 518-522), with keptAt
filterResult(st) ==
  [content |-> join(st.filteredLines),
   removedSegments |-> st.removedSegments,
   originalSegments |-> st.originalSegments,
   keptAt |-> st.keptAt]

filterAdsFromM3U8(m3u8Content, source, adConfig) ==
  IF ~adConfig.enabled \/ m3u8Content = "" THEN
    [content |-> m3u8Content, removedSegments |-> 0, originalSegments |-> 0,
     keptAt |-> [i \in 1..Len(split(m3u8Content)) |-> i]]
  ELSE filterResult(loop(LoopStart, split(m3u8Content), 1, source, adConfig))

(***************************************************************************)
(* The rule registry of AdFilter on the heap (adFilter.ts lines 211-284,   *)
(* 643-646; getUserAdConfig, part_000 lines 292-305).  Configurations,     *)
(* their customPatterns arrays and the rules in them are objects: what     *)
(* one holder changes in place is seen by every holder of the same         *)
(* object.  A heap is                                                      *)
(*   rules    the rule objects, by address                                 *)
(*   arrays   the customPatterns arrays, by address: addresses of rules    *)
(*   objects  the configuration objects, by address; their field           *)
(*            customPatterns is the address of an array                    *)
(*   at       the configuration object each holder refers to               *)
(*   saved    the rule list under 'ad-filter-config' in localStorage       *)
(*   calls    the number of calls made that allocate                       *)
(***************************************************************************)
Holders == { "DEFAULT_AD_CONFIG", "adFilter", "otherFilter", "m3u8AdFilter" }

Instances == Holders \ { "DEFAULT_AD_CONFIG" }

\* the object the literal of DEFAULT_AD_CONFIG evaluates to: its rules at
\* the addresses 1..4, its array at 1, the object at 1
DefaultHeap ==
  [rules |-> DEFAULT_AD_CONFIG.customPatterns,
   arrays |-> << [i \in 1..Len(DEFAULT_AD_CONFIG.customPatterns) |-> i] >>,
   objects |-> << [enabled |-> DEFAULT_AD_CONFIG.enabled,
                   strictMode |-> DEFAULT_AD_CONFIG.strictMode,
                   customPatterns |-> 1] >>,
   at |-> [h \in { "DEFAULT_AD_CONFIG" } |-> 1],
   saved |-> None,
   calls |-> 0]

\* holder = { ...DEFAULT_AD_CONFIG, ...JSON.parse(saved) }: a new object
\* whose customPatterns is a new array of new rules
parseSaved(heap, holder) ==
  [heap EXCEPT
     !.rules = @ \o Val(heap.saved),
     !.arrays = Append(@, [i \in 1..Len(Val(heap.saved)) |-> Len(heap.rules) + i]),
     !.objects = Append(@, [heap.objects[heap.at["DEFAULT_AD_CONFIG"]]
                              EXCEPT !.customPatterns = Len(heap.arrays) + 1]),
     !.at = [h \in (DOMAIN heap.at) \cup { holder } |->
               IF h = holder THEN Len(heap.objects) + 1 ELSE heap.at[h]]]

\* holder = getUserAdConfig(): the parsed entry of localStorage when there
\* is one, DEFAULT_AD_CONFIG itself otherwise
getUserAdConfig(heap, holder) ==
  IF IsSome(heap.saved) THEN parseSaved(heap, holder)
  ELSE [heap EXCEPT
          !.at = [h \in (DOMAIN heap.at) \cup { holder } |->
                    IF h = holder THEN heap.at["DEFAULT_AD_CONFIG"] ELSE heap.at[h]]]

\* the module-level instances: new AdFilter(), a second new AdFilter(),
\* new M3U8AdFilter(), each with this.config = config || getUserAdConfig()
constructInstances(heap) ==
  getUserAdConfig(getUserAdConfig(getUserAdConfig(heap, "adFilter"),
                                  "otherFilter"),
                  "m3u8AdFilter")

\* the address of the array this.config.customPatterns of a holder
patternsOf(heap, holder) == heap.objects[heap.at[holder]].customPatterns

\* the rule list a holder sees: the rules its array refers to
customPatternsOf(heap, holder) ==
  [i \in 1..Len(heap.arrays[patternsOf(heap, holder)]) |->
     heap.rules[heap.arrays[patternsOf(heap, holder)][i]]]

\* the rule list a call of getUserAdConfig() returns
userAdConfigPatterns(heap) ==
  IF IsSome(heap.saved) THEN Val(heap.saved)
  ELSE customPatternsOf(heap, "DEFAULT_AD_CONFIG")

\* addCustomPattern with a test that refuses a name already in the list
addCustomPatternUnlessNamed(heap, holder, pattern) ==
  IF \E i \in 1..Len(customPatternsOf(heap, holder)) :
        customPatternsOf(heap, holder)[i].name = pattern.name
    THEN heap
    ELSE [heap EXCEPT
            !.rules = Append(@, pattern),
            !.arrays[patternsOf(heap, holder)] = Append(@, Len(heap.rules) + 1),
            !.calls = @ + 1]

\* this.config.customPatterns.push(pattern)
addCustomPattern(heap, holder, pattern) ==
  [heap EXCEPT
     !.rules = Append(@, pattern),
     !.arrays[patternsOf(heap, holder)] = Append(@, Len(heap.rules) + 1),
     !.calls = @ + 1]

\* this.config.customPatterns =
\*   this.config.customPatterns.filter(p => p.name !== name)
removeCustomPattern(heap, holder, name) ==
  [heap EXCEPT
     !.arrays = Append(@, SelectSeq(heap.arrays[patternsOf(heap, holder)],
                                    LAMBDA r : heap.rules[r].name # name)),
     !.objects[heap.at[holder]].customPatterns = Len(heap.arrays) + 1,
     !.calls = @ + 1]

\* the positions in the holder's list of the rules called name
positionsOf(heap, holder, name) ==
  { i \in 1..Len(customPatternsOf(heap, holder)) :
      customPatternsOf(heap, holder)[i].name = name }

\* const pattern = customPatterns.find(p => p.name === name);
\* if (pattern) pattern.enabled = enabled
togglePattern(heap, holder, name, enabled) ==
  IF positionsOf(heap, holder, name) = {} THEN heap
  ELSE [heap EXCEPT
          !.rules[heap.arrays[patternsOf(heap, holder)]
                    [CHOOSE i \in positionsOf(heap, holder, name) :
                       \A j \in positionsOf(heap, holder, name) : i <= j]]
               .enabled = enabled]

\* this.config = { ...this.config, ...partial }: a new object with the
\* fields of the old one, its customPatterns array included
updateConfig(heap, holder, partial) ==
  [heap EXCEPT
     !.objects = Append(@, Spread(heap.objects[heap.at[holder]], partial)),
     !.at[holder] = Len(heap.objects) + 1,
     !.calls = @ + 1]

\* the AdFilterConfig a holder sees, as a value
configOf(heap, holder) ==
  [DEFAULT_AD_CONFIG EXCEPT
     !.enabled = heap.objects[heap.at[holder]].enabled,
     !.strictMode = heap.objects[heap.at[holder]].strictMode,
     !.customPatterns = customPatternsOf(heap, holder)]

(***************************************************************************)
(* The classifier and the filter as a state machine: the singleton         *)
(* smartAdDetector with its cache, the singleton adFilter with its         *)
(* configuration, and the calls a page makes on them.                      *)
(*   adHistory  the cache of smartAdDetector: cache key -> stored isAd     *)
(*   config     the AdFilterConfig in force                                *)
(*   last       the last call made, with its arguments and what it         *)
(*              returned; for the functions checked one call at a time     *)
(*              (SpecM3U8, SpecDuration), first the arguments of the call  *)
(*   heap       the configuration objects and who holds them; followed     *)
(*              through the calls of the rule registry (SpecRegistry),     *)
(*              elsewhere as the module-level instances were constructed   *)
(*              and with config the configuration in force, by value       *)
(***************************************************************************)
VARIABLES adHistory, config, last, heap

vars == << adHistory, config, last, heap >>

MaxCache == 1

MaxList == 2

Fragments ==
  [url : Urls, duration : Durations, title : Titles, index : Indexes]

Segments ==
  { [url |-> "https://example.com/video/episode_001.ts",
     duration |-> Some(Sec(8)), title |-> Some("Episode 1")],
    [url |-> "https://example.com/video/episode_001.ts",
     duration |-> Some(Sec(1800)), title |-> None],
    [url |-> "https://example.com/video/ad_segment_001.ts",
     duration |-> Some(Sec(8)), title |-> None],
    [url |-> "https://example.com/video/Prelude_01.ts",
     duration |-> Some(Sec(2)), title |-> None] }

SegmentLists == UNION { [1..n -> Segments] : n \in 0..MaxList }

Init ==
  /\ adHistory = EmptyHistory
  /\ config = DEFAULT_AD_CONFIG
  /\ heap = constructInstances(DefaultHeap)
  /\ last = [op |-> "init"]

WithinCache(h) == Cardinality(DOMAIN h) <= MaxCache

\* smartAdDetector.detectAd(fragment), called directly; d is its outcome
DetectAdReturns(f, d) ==
  /\ WithinCache(d.adHistory)
  /\ adHistory' = d.adHistory
  /\ last' = [op |-> "detectAd", fragment |-> f,
              hit |-> cacheKey(f.url, f.duration) \in DOMAIN adHistory,
              result |-> d.result, ran |-> d.ran]
  /\ UNCHANGED << config, heap >>

DetectAd == \E f \in Fragments : DetectAdReturns(f, detectAd(f, adHistory))

\* adFilter.isAd(segmentUrl, duration, title, index); v is its outcome
IsAdReturns(f, v) ==
  /\ WithinCache(v.adHistory)
  /\ adHistory' = v.adHistory
  /\ last' = [op |-> "isAd", fragment |-> f,
              hit |-> cacheKey(f.url, f.duration) \in DOMAIN adHistory,
              isAd |-> v.isAd, step |-> v.step, smart |-> v.smart]
  /\ UNCHANGED << config, heap >>

IsAd ==
  \E f \in Fragments :
    IsAdReturns(f, isAdSegment(f.url, f.duration, f.title, config, f.index, adHistory))

\* filterAdSegments(segments, config) with the configuration of adFilter;
\* r is its outcome
FilterAdSegmentsReturns(segments, r) ==
  /\ WithinCache(r.adHistory)
  /\ adHistory' = r.adHistory
  /\ last' = [op |-> "filterAdSegments", segments |-> segments, out |-> r.out]
  /\ UNCHANGED << config, heap >>

FilterAdSegments ==
  \E segments \in SegmentLists :
    FilterAdSegmentsReturns(segments, filterAdSegments(segments, config, adHistory))

\* smartAdDetector.clearCache()
ClearCache ==
  /\ adHistory' = clearCache(adHistory)
  /\ last' = [op |-> "clearCache", before |-> getStats(adHistory)]
  /\ UNCHANGED << config, heap >>

\* adFilter.updateConfig(partial): this.config = { ...this.config, ...partial }
UpdateConfig ==
  \E partial \in [enabled : BOOLEAN] \cup [strictMode : BOOLEAN] :
    /\ config' = Spread(config, partial)
    /\ last' = [op |-> "updateConfig"]
    /\ UNCHANGED << adHistory, heap >>

Next == DetectAd \/ IsAd \/ FilterAdSegments \/ ClearCache \/ UpdateConfig

Spec == Init /\ [][Next]_vars

(***************************************************************************)
(* The playlist rewriter applied to one manifest: the manifest text and    *)
(* the source are drawn at the start, filterAdsFromM3U8 is then called     *)
(* with the configuration as its third argument.                           *)
(***************************************************************************)
MaxLines == 3

Manifests == UNION { [1..n -> LineTexts] : n \in 0..MaxLines }

Configs ==
  { [DEFAULT_AD_CONFIG EXCEPT !.enabled = e, !.strictMode = s] : e, s \in BOOLEAN }

InitM3U8 ==
  /\ adHistory = EmptyHistory
  /\ heap = constructInstances(DefaultHeap)
  /\ config \in Configs
  /\ last \in { [op |-> "manifest", content |-> join(ls), source |-> src] :
                  ls \in Manifests, src \in Sources }

\* filterAdsFromM3U8(content, source, config); r is the result
FilterAdsFromM3U8Returns(r) ==
  /\ last' = [op |-> "filterAdsFromM3U8", content |-> last.content,
              source |-> last.source, result |-> r]
  /\ UNCHANGED << adHistory, config, heap >>

FilterAdsFromM3U8 ==
  /\ last.op = "manifest"
  /\ FilterAdsFromM3U8Returns(filterAdsFromM3U8(last.content, last.source, config))

NextM3U8 == FilterAdsFromM3U8

SpecM3U8 == InitM3U8 /\ [][NextM3U8]_vars

(***************************************************************************)
(* isAdDuration applied to one declared duration: the table entries, the   *)
(* durations at one thousandth, one hundredth and two hundredths from an   *)
(* entry, a content duration, zero and NaN.                                *)
(***************************************************************************)
DeclaredDurations ==
  { commonAdDurations[i] + k :
      i \in 1..Len(commonAdDurations),
      k \in { -20000, -10000, -1000, 0, 1000, 10000, 20000 } }
    \cup { 0, Sec(8), NaN }

DurationSources ==
  { None, Some(""), Some("ruyi"), Some("ffzy"), Some("bfzy"), Some("other") }

InitDuration ==
  /\ adHistory = EmptyHistory
  /\ heap = constructInstances(DefaultHeap)
  /\ config \in { c \in Configs : c.enabled }
  /\ last \in { [op |-> "duration", duration |-> d, source |-> src] :
                  d \in DeclaredDurations, src \in DurationSources }

\* isAdDuration(duration, source, config); r is the result
IsAdDurationReturns(r) ==
  /\ last' = [op |-> "isAdDuration", duration |-> last.duration,
              source |-> last.source, result |-> r]
  /\ UNCHANGED << adHistory, config, heap >>

IsAdDuration ==
  /\ last.op = "duration"
  /\ IsAdDurationReturns(isAdDuration(last.duration, last.source, config))

NextDuration == IsAdDuration

SpecDuration == InitDuration /\ [][NextDuration]_vars

(***************************************************************************)
(* isAdSegment applied to one fragment under a rule list of the user's:    *)
(* the configuration, the fragment and the cache are drawn first, then     *)
(* the call is made once.  The caches are those the classifier can have    *)
(* built: empty, or holding the verdict of one earlier fragment.           *)
(***************************************************************************)
RuleConfigs ==
  { [DEFAULT_AD_CONFIG EXCEPT !.customPatterns = rules, !.strictMode = s] :
      rules \in RuleLists, s \in BOOLEAN }

BuiltCaches ==
  { EmptyHistory } \cup
  { detectAd(g, EmptyHistory).adHistory :
      g \in [url : Urls, duration : Durations, title : { None }, index : { None }] }

InitRules ==
  /\ heap = constructInstances(DefaultHeap)
  /\ config \in RuleConfigs
  /\ last \in { [op |-> "fragment", fragment |-> f] : f \in Fragments }
  /\ adHistory \in BuiltCaches

IsAdOnFragment ==
  /\ last.op = "fragment"
  /\ IsAdReturns(last.fragment,
                 isAdSegment(last.fragment.url, last.fragment.duration,
                             last.fragment.title, config, last.fragment.index,
                             adHistory))

NextRules == IsAdOnFragment

SpecRules == InitRules /\ [][NextRules]_vars

(***************************************************************************)
(* The rule registry: the calls addCustomPattern, removeCustomPattern,     *)
(* togglePattern and updateConfig on the instance adFilter, whose          *)
(* configuration came from getUserAdConfig(), without and with an entry    *)
(* in localStorage.  config is the configuration adFilter sees.            *)
(***************************************************************************)
MaxCalls == 3

SavedLists == { None, Some(DEFAULT_AD_CONFIG.customPatterns) }

\* a rule with a new name and a rule with the name of a default rule
NewPatterns == { RuleUrlOnly, [RuleUrlOnly EXCEPT !.name = "Pre-roll Ads"] }

RuleNames == { "Pre-roll Ads", "Episodes", "No such rule" }

InitRegistry ==
  /\ adHistory = EmptyHistory
  /\ heap \in { constructInstances([DefaultHeap EXCEPT !.saved = sv]) :
                  sv \in SavedLists }
  /\ config = configOf(heap, "adFilter")
  /\ last = [op |-> "init"]

\* a call on adFilter that left the heap h
RegistryCallReturns(h, call) ==
  /\ h.calls <= MaxCalls
  /\ heap' = h
  /\ config' = configOf(h, "adFilter")
  /\ last' = call
  /\ UNCHANGED adHistory

AddCustomPattern ==
  \E pattern \in NewPatterns :
    RegistryCallReturns(addCustomPattern(heap, "adFilter", pattern),
                        [op |-> "addCustomPattern", name |-> pattern.name])

RemoveCustomPattern ==
  \E name \in RuleNames :
    RegistryCallReturns(removeCustomPattern(heap, "adFilter", name),
                        [op |-> "removeCustomPattern", name |-> name])

TogglePattern ==
  \E name \in RuleNames, enabled \in BOOLEAN :
    RegistryCallReturns(togglePattern(heap, "adFilter", name, enabled),
                        [op |-> "togglePattern", name |-> name,
                         enabled |-> enabled])

UpdateConfigObject ==
  \E partial \in [enabled : BOOLEAN] \cup [strictMode : BOOLEAN] :
    RegistryCallReturns(updateConfig(heap, "adFilter", partial),
                        [op |-> "updateConfig"])

NextRegistry ==
  AddCustomPattern \/ RemoveCustomPattern \/ TogglePattern \/ UpdateConfigObject

SpecRegistry == InitRegistry /\ [][NextRegistry]_vars

(***************************************************************************)
(* Properties of the classifier and the composite filter.                  *)
(***************************************************************************)
LastKey == cacheKey(last.fragment.url, last.fragment.duration)

\* C1: whenever adFilter.isAd (isAdSegment) has been called with
\* config.enabled = false, it returned false, whatever the fragment, the
\* rule list, strictMode and the cache.
C1_DisabledNeverAd ==
  (last.op = "isAd" /\ ~config.enabled) => last.isAd = FALSE

\* a disabled filter was asked about the ad test case while its verdict
\* "ad" was in the cache
C1_Witness ==
  /\ last.op = "isAd" /\ ~config.enabled
  /\ last.fragment.url = "https://example.com/video/ad_segment_001.ts"
  /\ last.fragment.duration = Some(Sec(8))
  /\ last.hit /\ adHistory[LastKey] = TRUE
  /\ last.isAd = FALSE

\* C2: in every step, a detectAd call whose (url, duration) key is already
\* in the cache returns the stored boolean with confidence 0.9 and runs no
\* title or sequence analysis, whatever its title and index; and a stored
\* entry stays as it is in every step other than clearCache.
C2_CacheHitReproduces ==
  [][ /\ (last'.op = "detectAd"
           /\ cacheKey(last'.fragment.url, last'.fragment.duration) \in DOMAIN adHistory)
        => LET key == cacheKey(last'.fragment.url, last'.fragment.duration)
           IN  /\ last'.result.isAd = adHistory[key]
               /\ last'.result.confidence = 90
               /\ last'.ran \cap {"title", "sequence"} = {}
      /\ last'.op # "clearCache"
        => \A key \in DOMAIN adHistory :
              key \in DOMAIN adHistory' /\ adHistory'[key] = adHistory[key] ]_vars

\* a cache hit for a fragment carrying an ad title and an index, whose
\* stored verdict is "ad"
C2_Witness ==
  /\ last.op = "detectAd" /\ last.hit
  /\ last.fragment.title = Some("<guang><gao><shi><jian>")
  /\ last.fragment.index = Some(0)
  /\ last.result.isAd = TRUE /\ last.result.confidence = 90

\* C3: filtering the list that the previous filterAdSegments call returned
\* (same configuration, cache not cleared in between) returns that list.
C3_FilterIdempotent ==
  [][ (/\ last.op = "filterAdSegments"
       /\ last'.op = "filterAdSegments"
       /\ last'.segments = last.out)
      => last'.out = last'.segments ]_vars

HasAdKeyword(url) ==
  \E k \in SeqRange(adKeywords) \cup SeqRange(urlHighConfidenceAdKeywords)
             \cup SeqRange(urlMediumConfidenceAdKeywords) : IncludesCI(url, k)

\* C4: with the default (enabled, non-strict) configuration, adFilter.isAd
\* returns true for every fragment whose url contains "ad" and whose
\* duration is between 4 and 10 seconds, on a cache hit as on a miss and
\* for every index.
C4_AdKeywordShortIsAd ==
  (/\ last.op = "isAd"
   /\ config.enabled /\ ~config.strictMode
   /\ IncludesCI(last.fragment.url, "ad")
   /\ TruthyNum(last.fragment.duration)
   /\ Val(last.fragment.duration) >= Sec(4)
   /\ Val(last.fragment.duration) <= Sec(10))
  => last.isAd = TRUE

\* the test case ad_segment_001.ts, 8 s, answered from the cache
C4_Witness ==
  /\ last.op = "isAd" /\ config = DEFAULT_AD_CONFIG
  /\ last.fragment.url = "https://example.com/video/ad_segment_001.ts"
  /\ last.fragment.duration = Some(Sec(8))
  /\ last.fragment.index = Some(0)
  /\ last.hit
  /\ last.isAd = TRUE

\* C5: with the default configuration, adFilter.isAd returns false for
\* every fragment longer than 60 seconds whose url has no ad keyword, on a
\* cache hit as on a miss, for every title and index.
C5_LongContentNotAd ==
  (/\ last.op = "isAd"
   /\ config = DEFAULT_AD_CONFIG
   /\ TruthyNum(last.fragment.duration)
   /\ Val(last.fragment.duration) > Sec(60)
   /\ ~HasAdKeyword(last.fragment.url))
  => last.isAd = FALSE

\* the test case episode_001.ts, 1800 s, with an ad title, answered from
\* the cache
C5_Witness ==
  /\ last.op = "isAd" /\ config = DEFAULT_AD_CONFIG
  /\ last.fragment.url = "https://example.com/video/episode_001.ts"
  /\ last.fragment.duration = Some(Sec(1800))
  /\ last.fragment.title = Some("<guang><gao><shi><jian>")
  /\ last.hit
  /\ last.isAd = FALSE

\* the results of the analyses detectAd runs on a miss with a duration
SubAnalyses(f) ==
  { analyzeByDuration(Val(f.duration)), analyzeByUrlMemo[f.url] }
    \cup (IF TruthyStr(f.title) THEN { analyzeByTitleMemo[Val(f.title)] } ELSE {})
    \cup (IF IsSome(f.index)
            THEN { analyzeBySequence(Val(f.index), Val(f.duration)) } ELSE {})

\* C12: on a cache miss with a duration, the isAd that detectAd returns is
\* the OR of the isAd of the analyses that ran (duration, url, title when
\* present, sequence when an index is present).
C12_IsAdIsOr ==
  (last.op = "detectAd" /\ ~last.hit /\ TruthyNum(last.fragment.duration))
    => (last.result.isAd <=> \E a \in SubAnalyses(last.fragment) : a.isAd)

\* C13: every result of detectAd has a confidence between 0 and 1, and on a
\* cache miss with a duration it is the maximum of the confidences of the
\* analyses that ran.
C13_ConfidenceIsMax ==
  last.op = "detectAd"
    => /\ last.result.confidence \in 0..100
       /\ (~last.hit /\ TruthyNum(last.fragment.duration))
            => /\ \E a \in SubAnalyses(last.fragment) :
                     a.confidence = last.result.confidence
               /\ \A a \in SubAnalyses(last.fragment) :
                     a.confidence <= last.result.confidence

\* a miss on which the duration (0.95), the url (0.9) and the title (0.85)
\* analyses all ran, whose confidences add up to more than 1
C13_Witness ==
  /\ last.op = "detectAd" /\ ~last.hit
  /\ last.fragment.url = "https://cdn.example.com/PreRoll/clip.ts"
  /\ last.fragment.duration = Some(Sec(1800))
  /\ last.fragment.title = Some("<guang><gao><shi><jian>")
  /\ last.fragment.index = Some(0)
  /\ last.result.confidence = 95

(***************************************************************************)
(* Properties of the playlist rewriter.                                    *)
(***************************************************************************)
\* the lines of a text; the empty text, which is what an empty list of
\* lines joins to, has none
Lines(content) == IF content = "" THEN << >> ELSE split(content)

RECURSIVE IsSubsequence(_, _)
IsSubsequence(a, b) ==
  IF Len(a) = 0 THEN TRUE
  ELSE IF Len(b) = 0 THEN FALSE
  ELSE IF Head(a) = Head(b) THEN IsSubsequence(Tail(a), Tail(b))
  ELSE IsSubsequence(a, Tail(b))

IsExtinfLine(l) == startsWith(trim(l), "#EXTINF:")

IsMarkerLine(l) == trim(l) = "#EXT-X-DISCONTINUITY"

IsUrlLine(l) == ~startsWith(trim(l), "#") /\ Len(trim(l)) > 0

\* C6: the lines of the content filterAdsFromM3U8 returns are, in order and
\* character for character, lines of the manifest it was given: they form a
\* subsequence of the input lines, for every manifest, source and
\* configuration.
C6_OutputIsSubsequence ==
  last.op = "filterAdsFromM3U8"
    => IsSubsequence(Lines(last.result.content), split(last.content))

\* a manifest whose marker line was dropped and whose indented url line was
\* kept as it is
C6_Witness ==
  /\ last.op = "filterAdsFromM3U8" /\ config.enabled
  /\ last.content = "#EXT-X-DISCONTINUITY\n#EXTINF:8.000000,\n  segment02.ts"
  /\ last.result.content = "#EXTINF:8.000000,\n  segment02.ts"

CountExtinf(ls) == Cardinality({ i \in DOMAIN ls : IsExtinfLine(ls[i]) })

\* C7: with filtering enabled, originalSegments minus removedSegments of the
\* result equals the number of #EXTINF lines in the returned content.
C7_CountsAgree ==
  (last.op = "filterAdsFromM3U8" /\ config.enabled)
    => last.result.originalSegments - last.result.removedSegments
         = CountExtinf(Lines(last.result.content))

\* an #EXTINF line that declares a duration of the table of the source
IsSourceAdExtinf(l, source) ==
  /\ IsExtinfLine(l)
  /\ IsSome(parseExtinfDuration(trim(l)))
  /\ hasSourceRule(source)
  /\ someWithin(Val(parseExtinfDuration(trim(l))), sourceAdDurations[Val(source)])

\* the positions of the #EXTINF lines of an ad pair: a duration of the
\* source's table, immediately followed by a url line
AdPairs(lines, source) ==
  { i \in 1..(Len(lines) - 1) :
      IsSourceAdExtinf(lines[i], source) /\ IsUrlLine(lines[i + 1]) }

WithoutPair(lines, i) == SubSeq(lines, 1, i - 1) \o SubSeq(lines, i + 2, Len(lines))

\* C8: with filtering enabled, in strict and in non-strict mode, for every
\* #EXTINF line that declares a duration of the source's table and is
\* immediately followed by a url line, neither line is in the output and
\* removedSegments is one more than for the manifest without the pair.
C8_AdPairRemoved ==
  (last.op = "filterAdsFromM3U8" /\ config.enabled)
    => \A i \in AdPairs(split(last.content), last.source) :
         /\ i \notin SeqRange(last.result.keptAt)
         /\ (i + 1) \notin SeqRange(last.result.keptAt)
         /\ last.result.removedSegments
              = filterAdsFromM3U8(join(WithoutPair(split(last.content), i)),
                                  last.source, config).removedSegments + 1

WithoutMarkers(lines) == SelectSeq(lines, LAMBDA l : ~IsMarkerLine(l))

\* C9: with filtering enabled, the output has no #EXT-X-DISCONTINUITY line,
\* and removedSegments and the retained lines are those of the same
\* manifest without its #EXT-X-DISCONTINUITY lines.
C9_MarkerDroppedSilently ==
  (last.op = "filterAdsFromM3U8" /\ config.enabled)
    => /\ \A i \in DOMAIN Lines(last.result.content) :
             ~IsMarkerLine(Lines(last.result.content)[i])
       /\ last.result.removedSegments
            = filterAdsFromM3U8(join(WithoutMarkers(split(last.content))),
                                last.source, config).removedSegments
       /\ Lines(last.result.content)
            = Lines(filterAdsFromM3U8(join(WithoutMarkers(split(last.content))),
                                      last.source, config).content)

(***************************************************************************)
(* Properties of isAdDuration.                                             *)
(***************************************************************************)
\* the table entries isAdDuration compares a duration with
ApplicableDurations(source, adConfig) ==
  (IF hasSourceRule(source) THEN SeqRange(sourceAdDurations[Val(source)]) ELSE {})
    \cup (IF adConfig.strictMode THEN {} ELSE SeqRange(commonAdDurations))

Distance(d, e) == IF d >= e THEN d - e ELSE e - d

\* the pairs (duration, entry) one hundredth apart for which
\* Math.abs(duration - entry) < 0.01 is true on binary64 doubles
MatchesAtOneHundredth ==
  { << 4990000, 5000000 >>, << 5010000, 5000000 >>, << 5630000, 5640000 >>,
    << 9990000, 10000000 >>, << 10010000, 10000000 >>, << 14990000, 15000000 >>,
    << 15010000, 15000000 >>, << 2950000, 2960000 >>, << 3470000, 3480000 >>,
    << 3990000, 4000000 >>, << 4010000, 4000000 >> }

\* C10 as stated: isAdDuration answers true exactly when the declared
\* duration is at a distance below one hundredth of an applicable entry; a
\* distance of exactly one hundredth does not match.
C10_ExactTolerance ==
  (last.op = "isAdDuration" /\ last.duration # NaN)
    => (last.result
          <=> \E e \in ApplicableDurations(last.source, config) :
                 Distance(last.duration, e) < TOLERANCE)

\* C10, amended: isAdDuration answers true exactly when the declared
\* duration is at a distance below one hundredth of an applicable entry or,
\* at a distance of exactly one hundredth, when the binary64 difference
\* rounds below the double 0.01 (4.99 and 5.01 match 5.0; 19.99 and 20.01
\* do not match 20.0).
C10_Binary64Tolerance ==
  (last.op = "isAdDuration" /\ last.duration # NaN)
    => (last.result
          <=> \E e \in ApplicableDurations(last.source, config) :
                 \/ Distance(last.duration, e) < TOLERANCE
                 \/ << last.duration, e >> \in MatchesAtOneHundredth)

\* 5.01 s was matched against the entry 5.0 of the common table
C10_Witness ==
  /\ last.op = "isAdDuration"
  /\ last.duration = 5010000 /\ last.source = None /\ ~config.strictMode
  /\ last.result = TRUE

(***************************************************************************)
(* Further properties of the classifier and the composite filter.          *)
(***************************************************************************)
UserRuleMatches(f, adConfig) ==
  \E i \in 1..Len(adConfig.customPatterns) :
     /\ adConfig.customPatterns[i].enabled
     /\ customPatternMatches(adConfig.customPatterns[i], f.url, f.duration, f.title)

BuiltinRuleMatches(f) ==
  \E i \in 1..Len(AD_PATTERNS) :
     builtinPatternMatches(AD_PATTERNS[i], f.url, f.duration, f.title)

\* C15: with filtering enabled, in strict and in non-strict mode, a fragment
\* on which the classifier's confidence is below 0.7, no enabled user rule
\* matches and no built-in fallback rule matches is an ad whenever the
\* classifier's confidence is at least 0.4 and its verdict is ad.
C15_MediumConfidenceApplies ==
  (/\ last.op = "isAd" /\ config.enabled
   /\ last.smart.confidence < 70
   /\ ~UserRuleMatches(last.fragment, config)
   /\ ~BuiltinRuleMatches(last.fragment)
   /\ last.smart.confidence >= 40 /\ last.smart.isAd)
  => last.isAd = TRUE

CountIn(q, x) == Cardinality({ i \in DOMAIN q : q[i] = x })

\* C17: filterAdSegments returns fragments of its input in their original
\* order, and equal fragments of one input list are all kept or all
\* dropped.
C17_EqualFragmentsShareFate ==
  last.op = "filterAdSegments"
    => /\ IsSubsequence(last.out, last.segments)
       /\ \A i \in DOMAIN last.segments :
            CountIn(last.out, last.segments[i])
              \in { 0, CountIn(last.segments, last.segments[i]) }

\* C19: for a fragment without a duration detectAd returns isAd = false
\* with confidence 0.1 and runs no analysis, whatever the url, the title,
\* the index and the cache.
C19_NoDurationLowConfidence ==
  (last.op = "detectAd" /\ last.fragment.duration = None)
    => /\ last.result.isAd = FALSE
       /\ last.result.confidence = 10
       /\ last.ran = {}

\* a fragment without duration, with an ad url, an ad title and an index,
\* classified while the cache holds an entry
C19_Witness ==
  /\ last.op = "detectAd" /\ last.fragment.duration = None
  /\ last.fragment.url = "https://cdn.example.com/PreRoll/clip.ts"
  /\ last.fragment.title = Some("<guang><gao><shi><jian>")
  /\ last.fragment.index = Some(0)
  /\ adHistory # EmptyHistory
  /\ last.result.isAd = FALSE

OtherMode(f, adConfig, history) ==
  isAdSegment(f.url, f.duration, f.title,
              [adConfig EXCEPT !.strictMode = ~adConfig.strictMode],
              f.index, history)

\* C11: in every isAdSegment call with filtering enabled, the call with
\* strictMode reversed on the same fragment, rule list and cache is decided
\* by the high-confidence short-circuit, or by the user-rule scan, exactly
\* when this call is, and with the same verdict; and when the classifier's
\* confidence is below 0.7 and an enabled user rule matches, both calls
\* return true.
C11_RulesApplyInBothModes ==
  [][ (last'.op = "isAd" /\ config.enabled)
        => /\ (last'.step = "smart"
                 <=> OtherMode(last'.fragment, config, adHistory).step = "smart")
           /\ (last'.step = "custom"
                 <=> OtherMode(last'.fragment, config, adHistory).step = "custom")
           /\ (last'.step \in { "smart", "custom" }
                 => OtherMode(last'.fragment, config, adHistory).isAd = last'.isAd)
           /\ (last'.smart.confidence < 70 /\ UserRuleMatches(last'.fragment, config)
                 => /\ last'.isAd = TRUE
                    /\ OtherMode(last'.fragment, config, adHistory).isAd = TRUE) ]_vars

\* in strict mode, a user rule behind a disabled one decided that a
\* fragment the classifier was unsure about is an ad
C11_Witness ==
  /\ last.op = "isAd" /\ config.enabled /\ config.strictMode
  /\ config.customPatterns = << RuleDisabled, RuleTitleOnly >>
  /\ last.fragment.title = Some("<guang><gao><shi><jian>")
  /\ last.smart.confidence < 70
  /\ last.step = "custom" /\ last.isAd = TRUE

\* a rule matches a fragment as the rule scan is specified: a title check
\* or a duration check fails on a fragment without title or duration
RuleMatchesAsSpecified(pattern, f) ==
  /\ \/ Len(pattern.urlPatterns) = 0
     \/ \E i \in 1..Len(pattern.urlPatterns) :
           IncludesCI(f.url, pattern.urlPatterns[i])
  /\ \/ Len(pattern.titlePatterns) = 0
     \/ /\ TruthyStr(f.title)
        /\ \E i \in 1..Len(pattern.titlePatterns) :
              IncludesCI(Val(f.title), pattern.titlePatterns[i])
  /\ \/ ~IsSome(pattern.durationRange)
     \/ /\ TruthyNum(f.duration)
        /\ Val(f.duration) >= Val(pattern.durationRange).min
        /\ Val(f.duration) <= Val(pattern.durationRange).max

\* C14: when the rule scan of isAdSegment runs (filtering enabled,
\* classifier confidence below 0.7), it returns true exactly when some
\* enabled rule matches the fragment as specified; in particular not for a
\* rule with title patterns or a duration range on a fragment whose title
\* or duration is missing.
C14_RuleMatchesIff ==
  (last.op = "isAd" /\ config.enabled /\ last.smart.confidence < 70)
    => (last.step = "custom"
          <=> \E i \in 1..Len(config.customPatterns) :
                 /\ config.customPatterns[i].enabled
                 /\ RuleMatchesAsSpecified(config.customPatterns[i], last.fragment))

(***************************************************************************)
(* Further properties of the playlist rewriter.                            *)
(***************************************************************************)
\* the #EXTINF line l declares a duration of the table of the source
InSourceTable(l, source) == IsSourceAdExtinf(l, source)

\* the #EXTINF line l declares a duration of the global table and not of
\* the table of the source, if the source has one
InGlobalTableOnly(l, source) ==
  /\ IsExtinfLine(l)
  /\ IsSome(parseExtinfDuration(trim(l)))
  /\ ~IsSourceAdExtinf(l, source)
  /\ someWithin(Val(parseExtinfDuration(trim(l))), commonAdDurations)

KeptLines(result) == { result.keptAt[k] : k \in DOMAIN result.keptAt }

\* the line at i is reached by the tests of the loop (the line before it is
\* not an #EXTINF line) and a url line without ad keyword follows it
PlainSegmentAt(lines, i, adConfig) ==
  /\ i < Len(lines)
  /\ i = 1 \/ ~IsExtinfLine(lines[i - 1])
  /\ IsUrlLine(lines[i + 1])
  /\ ~isAdUrl(trim(lines[i + 1]), adConfig)

\* C16: with filtering enabled, an #EXTINF line declaring a duration of the
\* table of the given source is not in the output, in strict and in
\* non-strict mode, and neither is the url line of its segment; an #EXTINF
\* line declaring a duration of the global table only (no source, unknown
\* source, or not in the source's table) is removed with its url line in
\* non-strict mode and both are kept in strict mode.
C16_SourceTableInBothModes ==
  (last.op = "filterAdsFromM3U8" /\ config.enabled)
    => \A i \in DOMAIN split(last.content) :
         /\ InSourceTable(split(last.content)[i], last.source)
              => /\ i \notin KeptLines(last.result)
                 /\ PlainSegmentAt(split(last.content), i, config)
                      => (i + 1) \notin KeptLines(last.result)
         /\ (InGlobalTableOnly(split(last.content)[i], last.source) /\ ~config.strictMode)
              => /\ i \notin KeptLines(last.result)
                 /\ PlainSegmentAt(split(last.content), i, config)
                      => (i + 1) \notin KeptLines(last.result)
         /\ (/\ InGlobalTableOnly(split(last.content)[i], last.source)
             /\ config.strictMode
             /\ PlainSegmentAt(split(last.content), i, config))
              => /\ i \in KeptLines(last.result)
                 /\ (i + 1) \in KeptLines(last.result)

\* in strict mode with the source ffzy, the segment of 15 s (in the table
\* of ffzy) was removed and the #EXTINF line of 5.64 s (in the global table
\* only) was kept
C16_Witness ==
  /\ last.op = "filterAdsFromM3U8" /\ config.enabled /\ config.strictMode
  /\ last.source = Some("ffzy")
  /\ last.content = "#EXTINF:15.0,\nsegment01.ts\n#EXTINF:5.640000,"
  /\ last.result.content = "#EXTINF:5.640000,"
  /\ last.result.removedSegments = 1

\* the #EXTINF line l declares no duration (parseExtinfDuration answers
\* null) or one that is not a number (it answers NaN)
HasNoKnownDuration(l) ==
  /\ IsExtinfLine(l)
  /\ \/ parseExtinfDuration(trim(l)) = None
     \/ parseExtinfDuration(trim(l)) = Some(NaN)

\* a line the loop keeps when it tests it: no marker, no #EXTINF line with
\* an ad duration, no url with an ad keyword
KeptOnItsOwn(l, source, adConfig) ==
  /\ ~IsMarkerLine(l)
  /\ IsExtinfLine(l) =>
       \/ HasNoKnownDuration(l)
       \/ ~isAdDuration(Val(parseExtinfDuration(trim(l))), source, adConfig)
  /\ IsUrlLine(l) => ~isAdUrl(trim(l), adConfig)

\* C18: with filtering enabled, every #EXTINF line whose duration is
\* missing or unparseable is in the output and is counted in
\* originalSegments (which is the number of #EXTINF lines of the output),
\* and the line after it, when the loop keeps such a line on its own, is
\* in the output too.
C18_UnknownDurationRetained ==
  (last.op = "filterAdsFromM3U8" /\ config.enabled)
    => \A i \in DOMAIN split(last.content) :
         HasNoKnownDuration(split(last.content)[i])
           => /\ i \in KeptLines(last.result)
              /\ last.result.originalSegments
                   = CountExtinf(Lines(last.result.content))
              /\ (/\ i < Len(split(last.content))
                  /\ KeptOnItsOwn(split(last.content)[i + 1], last.source, config))
                   => (i + 1) \in KeptLines(last.result)

(***************************************************************************)
(* Properties of the cache, of the modes and of the fragment index.        *)
(***************************************************************************)
CacheSize(h) == Cardinality(DOMAIN h)

\* C21: in every step, a clearCache leaves a cache on which getStats
\* reports cacheSize 0, totalDetections 0 and adDetections 0; a detectAd
\* made right after a clearCache is not a cache hit and, for a fragment
\* with a duration, returns what the analyses compute and has run the
\* duration and url analyses; and every step other than clearCache leaves
\* the cache at least as large as it was.
C21_ClearResetsCache ==
  [][ /\ last'.op = "clearCache"
           => getStats(adHistory')
                = [cacheSize |-> 0, totalDetections |-> 0, adDetections |-> 0]
      /\ (last.op = "clearCache" /\ last'.op = "detectAd")
           => /\ ~last'.hit
              /\ TruthyNum(last'.fragment.duration)
                   => /\ last'.result = analyze(last'.fragment)
                      /\ { "duration", "url" } \subseteq last'.ran
      /\ last'.op # "clearCache"
           => CacheSize(adHistory') >= CacheSize(adHistory) ]_vars

\* a clearCache that emptied a cache holding one ad verdict
C21_Witness ==
  /\ last.op = "clearCache"
  /\ last.before = [cacheSize |-> 1, totalDetections |-> 1, adDetections |-> 1]
  /\ getStats(adHistory).cacheSize = 0

\* C22: two consecutive adFilter.isAd calls with the same url, duration,
\* title and index under the same configuration return the same boolean,
\* whatever calls were made before them: the entry the first call leaves
\* in the cache does not change the verdict of the second.
C22_VerdictIgnoresCache ==
  [][ (/\ last.op = "isAd" /\ last'.op = "isAd"
       /\ last'.fragment = last.fragment
       /\ config' = config)
      => last'.isAd = last.isAd ]_vars

\* C23: in every isAdSegment call with filtering enabled and strictMode
\* true that returns true, the call with strictMode false on the same
\* fragment, rule list and cache returns true as well.
C23_StrictOnlySuppresses ==
  [][ (/\ last'.op = "isAd" /\ config.enabled /\ config.strictMode
       /\ last'.isAd = TRUE)
      => OtherMode(last'.fragment, config, adHistory).isAd = TRUE ]_vars

(***************************************************************************)
(* Properties of the shape of the rewritten playlist.                      *)
(***************************************************************************)
\* from line i on, with open telling whether an #EXTINF line waits for its
\* url: every #EXTINF line is followed, after tag lines only, by one url
\* line, and every url line closes an #EXTINF line
RECURSIVE PairedFrom(_, _, _)
PairedFrom(lines, i, open) ==
  IF i > Len(lines) THEN ~open
  ELSE IF IsExtinfLine(lines[i]) THEN ~open /\ PairedFrom(lines, i + 1, TRUE)
  ELSE IF IsUrlLine(lines[i]) THEN open /\ PairedFrom(lines, i + 1, FALSE)
  ELSE IF trim(lines[i]) = "" THEN ~open /\ PairedFrom(lines, i + 1, FALSE)
  ELSE PairedFrom(lines, i + 1, open)

Paired(lines) == PairedFrom(lines, 1, FALSE)

\* C24: with filtering enabled, for every manifest in which each #EXTINF
\* line is followed, after zero or more other tag lines, by exactly one url
\* line and each url line belongs to an #EXTINF line, the output has the
\* same shape: no url line without its #EXTINF line and no #EXTINF line
\* without its url line.
C24_PairingPreserved ==
  (/\ last.op = "filterAdsFromM3U8" /\ config.enabled
   /\ Paired(split(last.content)))
    => Paired(Lines(last.result.content))

\* the #EXTINF line l is dropped for its duration, which makes the loop
\* skip the line after it
DroppedForDuration(l, source, adConfig) ==
  /\ IsExtinfLine(l)
  /\ ~HasNoKnownDuration(l)
  /\ isAdDuration(Val(parseExtinfDuration(trim(l))), source, adConfig)

\* some url pattern of an enabled rule of the user is found in the url
UserUrlPatternMatches(url, adConfig) ==
  \E i \in 1..Len(adConfig.customPatterns) :
     /\ adConfig.customPatterns[i].enabled
     /\ \E j \in 1..Len(adConfig.customPatterns[i].urlPatterns) :
          IncludesCI(url, adConfig.customPatterns[i].urlPatterns[j])

\* C25: with filtering enabled and strictMode true, a url line that is not
\* the line skipped after an #EXTINF line dropped for its duration is
\* missing from the output only if a url pattern of an enabled user rule
\* matches it: the built-in url keywords are not applied.
C25_StrictUrlByUserRulesOnly ==
  (last.op = "filterAdsFromM3U8" /\ config.enabled /\ config.strictMode)
    => \A i \in DOMAIN split(last.content) :
         (/\ IsUrlLine(split(last.content)[i])
          /\ i = 1 \/ ~DroppedForDuration(split(last.content)[i - 1],
                                          last.source, config)
          /\ i \notin KeptLines(last.result))
           => UserUrlPatternMatches(trim(split(last.content)[i]), config)

(***************************************************************************)
(* Properties of fragments with missing fields.                            *)
(***************************************************************************)
\* the url contains a keyword of one of the built-in lists: those of the
\* classifier, of the heuristics and of AD_PATTERNS
HasBuiltinKeyword(url) ==
  \/ HasAdKeyword(url)
  \/ \E k \in SeqRange(midRollKeywords) : IncludesCI(url, k)
  \/ \E i \in 1..Len(AD_PATTERNS) :
       /\ IsSome(AD_PATTERNS[i].urlKeywords)
       /\ \E k \in SeqRange(Val(AD_PATTERNS[i].urlKeywords)) : IncludesCI(url, k)

\* C26: with filtering enabled, in strict and in non-strict mode, a
\* fragment without duration and without title whose url contains no
\* built-in ad keyword and which no enabled user rule matches is not an ad
\* for isAdSegment (this is the call createHlsFragmentFilter makes).
C26_MissingFieldsNotAd ==
  (/\ last.op = "isAd" /\ config.enabled
   /\ last.fragment.duration = None /\ last.fragment.title = None
   /\ ~HasBuiltinKeyword(last.fragment.url)
   /\ ~UserRuleMatches(last.fragment, config))
    => last.isAd = FALSE

(***************************************************************************)
(* Properties of the rule registry.                                        *)
(***************************************************************************)
NamesDistinct(rules) ==
  \A i, j \in 1..Len(rules) : i # j => rules[i].name # rules[j].name

HasName(rules, name) == \E i \in 1..Len(rules) : rules[i].name = name

\* C27: in every step of the registry the names in the rule list of
\* adFilter stay pairwise distinct; after togglePattern(name, b) every rule
\* called name (every rule removeCustomPattern(name) would remove) has the
\* enabled flag b; and togglePattern and removeCustomPattern with a name
\* that is not in the list leave the list as it was.
C27_NamesStayDistinct ==
  [][ /\ NamesDistinct(config.customPatterns)
         => NamesDistinct(config'.customPatterns)
      /\ last'.op = "togglePattern"
         => \A i \in 1..Len(config'.customPatterns) :
               config'.customPatterns[i].name = last'.name
                 => config'.customPatterns[i].enabled = last'.enabled
      /\ (/\ last'.op \in { "togglePattern", "removeCustomPattern" }
          /\ ~HasName(config.customPatterns, last'.name))
         => config'.customPatterns = config.customPatterns ]_vars

\* what the holders other than adFilter observe: the rule lists of
\* DEFAULT_AD_CONFIG, of getUserAdConfig(), of another AdFilter and of the
\* M3U8AdFilter
ObservedElsewhere(h) ==
  << customPatternsOf(h, "DEFAULT_AD_CONFIG"), userAdConfigPatterns(h),
     customPatternsOf(h, "otherFilter"), customPatternsOf(h, "m3u8AdFilter") >>

\* C28: a call of addCustomPattern, removeCustomPattern or togglePattern
\* on adFilter, constructed without an explicit config, leaves the rule
\* lists and enabled flags seen through DEFAULT_AD_CONFIG, through
\* getUserAdConfig(), through another AdFilter and through an M3U8AdFilter
\* as they were.
C28_RegistryCallsAreLocal ==
  [][ last'.op \in { "addCustomPattern", "removeCustomPattern", "togglePattern" }
        => ObservedElsewhere(heap') = ObservedElsewhere(heap) ]_vars

(***************************************************************************)
(* The fragment index.                                                     *)
(***************************************************************************)
\* no index, the two leading positions and two later ones
OtherIndexes == { None, Some(0), Some(1), Some(2), Some(7) }

\* C29: in every isAdSegment call, the call with any other index, or
\* without index, on the same url, duration, title, configuration and cache
\* returns the same boolean.
C29_IndexNeverDecides ==
  [][ last'.op = "isAd"
        => \A index \in OtherIndexes :
              isAdSegment(last'.fragment.url, last'.fragment.duration,
                          last'.fragment.title, config, index, adHistory).isAd
                = last'.isAd ]_vars

\* a call on a leading short fragment whose reported confidence is the one
\* of the sequence analysis
C29_Witness ==
  /\ last.op = "isAd" /\ config.enabled /\ ~last.hit
  /\ last.fragment.index = Some(0)
  /\ TruthyNum(last.fragment.duration)
  /\ last.smart.confidence = 20
  /\ last.smart.confidence
       > analyze([last.fragment EXCEPT !.index = None]).confidence

(***************************************************************************)
(* The rewrite applied twice.                                              *)
(***************************************************************************)
\* C30: for every manifest, source and configuration, filterAdsFromM3U8
\* applied to the content it returned, with the same source and
\* configuration, returns that content again and removedSegments 0.
C30_RewriteIdempotent ==
  last.op = "filterAdsFromM3U8"
    => /\ filterAdsFromM3U8(last.result.content, last.source, config).content
            = last.result.content
       /\ filterAdsFromM3U8(last.result.content, last.source, config).removedSegments
            = 0

\* a first pass that removed a segment and kept an indented url line
C30_Witness ==
  /\ last.op = "filterAdsFromM3U8" /\ config.enabled
  /\ last.content = "#EXTINF:5.640000,\nsegment01.ts\n  segment02.ts"
  /\ last.result.content = "  segment02.ts"
  /\ last.result.removedSegments = 1
============================================================================
